---------------------------- MODULE Spec2Model ----------------------------
(***************************************************************************)
(* website_finder.py: a batch that resolves brand names to official        *)
(* websites through Wikidata, Wikipedia and DuckDuckGo, in that order.      *)
(*                                                                         *)
(* A Python str is a sequence of one-character strings; Python's None is   *)
(* the one-element sequence None, which no str equals.                     *)
(***************************************************************************)
EXTENDS Naturals, Sequences, FiniteSets, TLC

VARIABLES
    lines,      \* the lines of the input file (main: f)
    brands,     \* main: brands, after strip, filter and list(set(...))
    idx,        \* main: number of brands whose loop iteration has finished
    pc,         \* position of the single thread of control
    site,       \* get_website: site, the value the last adapter returned
    result,     \* get_website's return value (website, source), or NoResult
    calls,      \* adapter invocations of the running get_website call, in order
    query,      \* fetch_wikidata_site: the SPARQL text of the last request
    rows,       \* the rows written to the output csv, header excluded
    raisedIn,   \* the function whose uncaught exception ended the process
    args,       \* arguments of the function under direct test
    out         \* its outcome

vars == <<lines, brands, idx, pc, site, result, calls, query, rows, raisedIn, args, out>>

pipelineVars == <<lines, brands, idx, pc, site, result, calls, query, rows, raisedIn>>

harnessVars == <<args, out>>

-----------------------------------------------------------------------------
(* Python values *)

None == <<"None">>

EmptyStr == <<>>

\* Truthy, had the code tested `site is not None`
Truthy_NotNone(v) == v # None

\* Python truthiness of an Optional[str]: None and "" are falsy.
Truthy(v) == v # None /\ v # EmptyStr

UpperLetters == <<"A","B","C","D","E","F","G","H","I","J","K","L","M",
                  "N","O","P","Q","R","S","T","U","V","W","X","Y","Z">>

LowerLetters == <<"a","b","c","d","e","f","g","h","i","j","k","l","m",
                  "n","o","p","q","r","s","t","u","v","w","x","y","z">>

Digits == {"0","1","2","3","4","5","6","7","8","9"}

Range(s) == {s[i] : i \in 1..Len(s)}

\* str.lower() on one character
LowerChar(c) ==
    IF \E i \in 1..26 : UpperLetters[i] = c
    THEN LowerLetters[CHOOSE i \in 1..26 : UpperLetters[i] = c]
    ELSE c

\* str.lower()
Lower(s) == [i \in 1..Len(s) |-> LowerChar(s[i])]

\* s.startswith(p)
StartsWith(s, p) == Len(p) <= Len(s) /\ SubSeq(s, 1, Len(p)) = p

\* s.endswith(p)
EndsWith(s, p) == Len(p) <= Len(s) /\ SubSeq(s, Len(s) - Len(p) + 1, Len(s)) = p

\* sub in s
Contains(s, sub) ==
    \E i \in 0..(Len(s) - Len(sub)) : SubSeq(s, i + 1, i + Len(sub)) = sub

\* s[:n]
Prefix(s, n) == SubSeq(s, 1, IF n < Len(s) THEN n ELSE Len(s))

\* s[n:]
Suffix(s, n) == SubSeq(s, n + 1, Len(s))

\* 1-based position of the first character of s at or after position from that
\* lies in cs; 0 when there is none (str.find, shifted by one)
FindAny(s, cs, from) ==
    IF \E i \in from..Len(s) : s[i] \in cs
    THEN CHOOSE i \in from..Len(s) : s[i] \in cs /\ \A j \in from..(i - 1) : s[j] \notin cs
    ELSE 0

Whitespace == {" ", "\t", "\n", "\r"}

\* str.strip()
Strip(s) ==
    IF \A i \in 1..Len(s) : s[i] \in Whitespace THEN EmptyStr
    ELSE LET a == CHOOSE i \in 1..Len(s) : s[i] \notin Whitespace /\ \A j \in 1..(i - 1) : s[j] \in Whitespace
             b == CHOOSE i \in 1..Len(s) : s[i] \notin Whitespace /\ \A j \in (i + 1)..Len(s) : s[j] \in Whitespace
         IN SubSeq(s, a, b)

-----------------------------------------------------------------------------
(* Module constants *)

D_wikipedia == <<"w","i","k","i","p","e","d","i","a",".","o","r","g">>
D_facebook == <<"f","a","c","e","b","o","o","k",".","c","o","m">>
D_instagram == <<"i","n","s","t","a","g","r","a","m",".","c","o","m">>
D_youtube == <<"y","o","u","t","u","b","e",".","c","o","m">>
D_twitter == <<"t","w","i","t","t","e","r",".","c","o","m">>
D_linkedin == <<"l","i","n","k","e","d","i","n",".","c","o","m">>
D_amazon == <<"a","m","a","z","o","n",".","c","o","m">>
D_etsy == <<"e","t","s","y",".","c","o","m">>
D_pinterest == <<"p","i","n","t","e","r","e","s","t",".","c","o","m">>
D_reddit == <<"r","e","d","d","i","t",".","c","o","m">>
D_sephora == <<"s","e","p","h","o","r","a",".","c","o","m">>
D_ulta == <<"u","l","t","a",".","c","o","m">>
D_walmart == <<"w","a","l","m","a","r","t",".","c","o","m">>

EXCLUDE_DOMAINS ==
    {D_wikipedia, D_facebook, D_instagram, D_youtube, D_twitter, D_linkedin, D_amazon,
     D_etsy, D_pinterest, D_reddit, D_sephora, D_ulta, D_walmart}

-----------------------------------------------------------------------------
(* urllib.parse.urlparse(url).netloc, as _looks_official uses it *)

scheme_chars == Range(LowerLetters) \cup Range(UpperLetters) \cup Digits \cup {"+", "-", "."}

\* urlsplit drops leading C0 controls and spaces, then every tab, CR and LF
UrlCleaned(url) ==
    LET first == FindAny(url, Range(url) \ Whitespace, 1)
        stripped == IF first = 0 THEN EmptyStr ELSE Suffix(url, first - 1)
    IN SelectSeq(stripped, LAMBDA c : c \notin {"\t", "\r", "\n"})

\* urlsplit: what is left of the url once a leading "scheme:" is taken off
AfterScheme(url) ==
    LET u == UrlCleaned(url)
        i == FindAny(u, {":"}, 1)
    IN IF /\ i > 1
          /\ u[1] \in Range(LowerLetters) \cup Range(UpperLetters)
          /\ \A k \in 1..(i - 1) : u[k] \in scheme_chars
       THEN Suffix(u, i)
       ELSE u

\* urlsplit/_splitnetloc: the text between "//" and the first of "/", "?", "#"
Netloc(url) ==
    LET rest == AfterScheme(url)
    IN IF Prefix(rest, 2) = <<"/", "/">>
       THEN LET delim == FindAny(rest, {"/", "?", "#"}, 3)
            IN SubSeq(rest, 3, IF delim = 0 THEN Len(rest) ELSE delim - 1)
       ELSE EmptyStr

\* urlsplit raises ValueError("Invalid IPv6 URL") on an unpaired bracket (a paired
\* one goes through a further check of the bracketed host; no url here has one)
UrlparseRaises(url) ==
    LET n == Range(Netloc(url))
    IN ("[" \in n /\ "]" \notin n) \/ ("]" \in n /\ "[" \notin n)

-----------------------------------------------------------------------------
(* _looks_official *)

\* re.sub(r"[^a-z0-9]+", "", brand.lower())
BrandSlug(brand) ==
    SelectSeq(Lower(brand), LAMBDA c : c \in Range(LowerLetters) \cup Digits)

\* domain = parsed.netloc.lower()
DomainOf(url) == Lower(Netloc(url))

\* domain_nw = domain[4:] if domain.startswith("www.") else domain
DomainNw(domain) ==
    IF StartsWith(domain, <<"w", "w", "w", ".">>) THEN Suffix(domain, 4) ELSE domain

looks_official(url, brand) ==
    LET brand_slug == BrandSlug(brand)
        domain == DomainOf(url)
        domain_nw == DomainNw(domain)
    IN IF EndsWith(domain, <<".", "r", "u">>) THEN FALSE
       ELSE IF \E bad \in EXCLUDE_DOMAINS : EndsWith(domain_nw, bad) THEN FALSE
       ELSE Contains(domain_nw, Prefix(brand_slug, 6))

\* The outcome of a call of _looks_official: a bool, or the ValueError of urlparse
LooksOfficialOutcome(url, brand) ==
    IF UrlparseRaises(url) THEN "ValueError"
    ELSE IF looks_official(url, brand) THEN "True" ELSE "False"

-----------------------------------------------------------------------------
(* Values the model draws its inputs from *)

U_acme == <<"h","t","t","p","s",":","/","/","a","c","m","e",".","c","o","m">>
U_acmetools == <<"h","t","t","p","s",":","/","/","a","c","m","e","t","o","o","l","s",".","c","o","m">>
U_acme_upper == <<"H","T","T","P","S",":","/","/","W","W","W",".","A","C","M","E",".","C","O","M","/">>
U_acme_noscheme == <<"w","w","w",".","a","c","m","e",".","c","o","m">>
U_acme_userinfo == <<"h","t","t","p","s",":","/","/","a","c","m","e","@","e","x","a","m","p","l","e",".","c","o","m">>
U_acme_bracket == <<"h","t","t","p",":","/","/","[","a","c","m","e">>
U_acme_ru == <<"h","t","t","p",":","/","/","a","c","m","e","-","t","o","o","l","s",".","r","u">>
U_acme_ru_port == <<"h","t","t","p",":","/","/","a","c","m","e",".","r","u",":","8","0","8","0","/">>
U_sephora == <<"h","t","t","p","s",":","/","/","w","w","w",".","s","e","p","h","o","r","a",".","c","o","m","/","s","h","o","p">>
U_sephora_port == <<"h","t","t","p","s",":","/","/","w","w","w",".","s","e","p","h","o","r","a",".","c","o","m",":","4","4","3","/","s","h","o","p">>
U_sephora_userinfo == <<"h","t","t","p","s",":","/","/","u","s","e","r","@","w","w","w",".","s","e","p","h","o","r","a",".","c","o","m","/">>
U_sephora_shop == <<"h","t","t","p","s",":","/","/","s","h","o","p",".","s","e","p","h","o","r","a",".","c","o","m">>
U_example == <<"h","t","t","p","s",":","/","/","e","x","a","m","p","l","e",".","c","o","m">>
U_relative == <<"/","w","i","k","i","/","A","c","m","e">>

B_Sephora == <<"S","e","p","h","o","r","a">>
B_Acme == <<"A","c","m","e">>
B_AcmeTools == <<"A","c","m","e"," ","T","o","o","l","s">>
B_Bang == <<"!","!","!">>
B_Quote == <<"a","\"","b">>

L_Acme == <<"A","c","m","e">>
L_Acme_padded == <<" "," ","A","c","m","e"," ","\n">>
L_Quote == <<"a","\"","b","\n">>
L_blank == <<" ","\n">>

H_Website == <<"W","e","b","s","i","t","e">>
H_Official == <<"O","f","f","i","c","i","a","l"," ","w","e","b","s","i","t","e">>
H_Founded == <<"F","o","u","n","d","e","d">>

\* Sequences over S of length at most n
SeqUpTo(S, n) == UNION {[1..k -> S] : k \in 0..n}

MaxLines == 2

MaxBindings == 1

MaxRows == 2

MaxResults == 2

\* Lines an input file may hold
LineSet == {L_Acme, L_Acme_padded, L_Quote, L_blank}

-----------------------------------------------------------------------------
(* fetch_wikidata_site *)

QueryHead == <<"S","E","L","E","C","T"," ","?","w","e","b","s","i","t","e"," ","W","H","E","R","E"," ","{","\n"," "," "," "," "," "," ","?","e","n","t","i","t","y"," ","r","d","f","s",":","l","a","b","e","l"," ","\"">>

QueryTail == <<"\"","@","e","n"," ",".","\n"," "," "," "," "," "," ","?","e","n","t","i","t","y"," ","w","d","t",":","P","8","5","6"," ","?","w","e","b","s","i","t","e"," ",".","\n"," "," "," "," ","}"," ","L","I","M","I","T"," ","1">>

\* the f-string of lines 32-35
Query(name) == QueryHead \o name \o QueryTail

\* What the request can come to: an exception anywhere in the try block (network,
\* HTTP status, JSON, a missing key), or results.bindings with the website values
WikidataValues == {U_acme, U_sephora, EmptyStr}

WikidataResponses ==
    {[error |-> TRUE, bindings |-> <<>>]}
        \cup {[error |-> FALSE, bindings |-> b] : b \in SeqUpTo(WikidataValues, MaxBindings)}

fetch_wikidata_site(resp) ==
    IF resp.error THEN None
    ELSE IF resp.bindings # <<>> THEN resp.bindings[1]
    ELSE None

-----------------------------------------------------------------------------
(* fetch_wikipedia_site *)

\* A <tr> of the infobox: th is the text of its first <th> (None without one),
\* hrefs the href values of its anchors that have one, in document order
Row(th, hrefs) == [th |-> th, hrefs |-> hrefs]

\* "website" in header.get_text(strip=True).lower()
IsWebsiteHeader(th) == Contains(Lower(Strip(th)), <<"w","e","b","s","i","t","e">>)

\* FirstLink, had the code taken the row's last anchor
FirstLink_Last(row) == IF row.hrefs = <<>> THEN None ELSE row.hrefs[Len(row.hrefs)]

\* link = row.find("a", href=True)
FirstLink(row) == IF row.hrefs = <<>> THEN None ELSE row.hrefs[1]

\* LinkAccepted, had the code left _looks_official out as fetch_wikidata_site does
LinkAccepted_Unfiltered(link, name) ==
    /\ link # None
    /\ StartsWith(link, <<"h","t","t","p">>)

\* link and link["href"].startswith("http") and _looks_official(link["href"], name),
\* short of the ValueError _looks_official may raise
LinkAccepted(link, name) ==
    /\ link # None
    /\ StartsWith(link, <<"h","t","t","p">>)
    /\ looks_official(link, name)

\* the call of _looks_official on this row raises
LinkRaises(row) ==
    /\ row.th # None
    /\ IsWebsiteHeader(row.th)
    /\ FirstLink(row) # None
    /\ StartsWith(FirstLink(row), <<"h","t","t","p">>)
    /\ UrlparseRaises(FirstLink(row))

\* an exception on its way out of a function
Raised == <<"raise">>

\* the loop of lines 97-105 from row i on
RECURSIVE ScanFrom(_, _, _)
ScanFrom(trs, name, i) ==
    IF i > Len(trs) THEN None
    ELSE LET row == trs[i]
         IN IF row.th = None THEN ScanFrom(trs, name, i + 1)
            ELSE IF ~IsWebsiteHeader(row.th) THEN ScanFrom(trs, name, i + 1)
            ELSE IF LinkRaises(row) THEN Raised
            ELSE IF LinkAccepted(FirstLink(row), name) THEN FirstLink(row)
            ELSE ScanFrom(trs, name, i + 1)

ScanInfobox(trs, name) == ScanFrom(trs, name, 1)

\* What the two requests can come to
PipelineRows ==
    {Row(None, <<U_acme>>), Row(H_Website, <<U_sephora>>),
     Row(H_Official, <<U_acme>>), Row(H_Website, <<U_acme_bracket>>)}

WikipediaResponses ==
    {[kind |-> k, rows |-> <<>>] : k \in {"error", "nopage", "noinfobox"}}
        \cup {[kind |-> "infobox", rows |-> r] : r \in SeqUpTo(PipelineRows, MaxRows)}

\* an exception was raised inside the try block
WikipediaFailed(resp, name) ==
    resp.kind = "error" \/ (resp.kind = "infobox" /\ ScanInfobox(resp.rows, name) = Raised)

\* the except of lines 107-109 turns every exception into None
fetch_wikipedia_site(resp, name) ==
    IF resp.kind # "infobox" THEN None
    ELSE LET found == ScanInfobox(resp.rows, name)
         IN IF found = Raised THEN None ELSE found

-----------------------------------------------------------------------------
(* fetch_duckduckgo_site *)

\* the loop of lines 129-132 from result i on; failed: the provider raises once
\* the results are exhausted
RECURSIVE DdgFrom(_, _, _, _)
DdgFrom(results, failed, name, i) ==
    IF i > Len(results) THEN (IF failed THEN Raised ELSE None)
    ELSE IF UrlparseRaises(results[i]) THEN Raised
    ELSE IF looks_official(results[i], name) THEN results[i]
    ELSE DdgFrom(results, failed, name, i + 1)

DdgUrls == {U_acme, U_sephora, U_acme_bracket}

DdgResponses ==
    {[error |-> e, results |-> r] : e \in BOOLEAN, r \in SeqUpTo(DdgUrls, MaxResults)}

\* no try/except: what the loop raises leaves the function
fetch_duckduckgo_site(resp, name) == DdgFrom(resp.results, resp.error, name, 1)

-----------------------------------------------------------------------------
(* get_website *)

NoResult == <<"none">>

\* Fallback, had the code asked the web search before the encyclopedia
Fallback_Reordered(adapter) ==
    CASE adapter = "wikidata" -> "duckduckgo"
      [] adapter = "duckduckgo" -> "wikipedia"
      [] adapter = "wikipedia" -> "not_found"

\* The adapter get_website tries after `adapter` came back empty-handed;
\* "not_found" after the last
Fallback(adapter) ==
    CASE adapter = "wikidata" -> "wikipedia"
      [] adapter = "wikipedia" -> "duckduckgo"
      [] adapter = "duckduckgo" -> "not_found"

\* `if site: return site, <adapter>`, else on to the next source
\* or `return None, "not_found"`
AfterAdapter(adapter, value) ==
    IF Truthy(value) THEN [pc |-> "write", result |-> <<value, adapter>>]
    ELSE IF Fallback(adapter) = "not_found"
         THEN [pc |-> "write", result |-> <<None, "not_found">>]
         ELSE [pc |-> Fallback(adapter), result |-> NoResult]

\* One entry of calls: the adapter, whether an exception was raised inside it,
\* and what came back to get_website (Raised: the exception itself)
Call(adapter, failed, returned) ==
    [adapter |-> adapter, failed |-> failed, returned |-> returned]

brand == brands[idx + 1]

Returns(adapter, failed, value) ==
    /\ site' = value
    /\ calls' = Append(calls, Call(adapter, failed, value))
    /\ pc' = AfterAdapter(adapter, value).pc
    /\ result' = AfterAdapter(adapter, value).result

FetchWikidata ==
    /\ pc = "wikidata"
    /\ \E resp \in WikidataResponses :
           Returns("wikidata", resp.error, fetch_wikidata_site(resp))
    /\ query' = Query(brand)
    /\ UNCHANGED <<lines, brands, idx, rows, raisedIn, harnessVars>>

FetchWikipedia ==
    /\ pc = "wikipedia"
    /\ \E resp \in WikipediaResponses :
           Returns("wikipedia", WikipediaFailed(resp, brand), fetch_wikipedia_site(resp, brand))
    /\ UNCHANGED <<lines, brands, idx, query, rows, raisedIn, harnessVars>>

FetchDuckduckgo ==
    /\ pc = "duckduckgo"
    /\ \E resp \in DdgResponses :
           LET value == fetch_duckduckgo_site(resp, brand)
           IN IF value = Raised
              THEN /\ calls' = Append(calls, Call("duckduckgo", TRUE, Raised))
                   /\ pc' = "crashed"
                   /\ raisedIn' = "fetch_duckduckgo_site"
                   /\ UNCHANGED <<site, result>>
              ELSE /\ Returns("duckduckgo", FALSE, value)
                   /\ UNCHANGED raisedIn
    /\ UNCHANGED <<lines, brands, idx, query, rows, harnessVars>>

-----------------------------------------------------------------------------
(* main *)

\* {line.strip() for line in f if line.strip()}
BrandSet(ls) == {Strip(ls[i]) : i \in 1..Len(ls)} \ {EmptyStr}

\* list(set(brands)): the set's elements once each, in an order Python leaves open
Orderings(S) ==
    {s \in [1..Cardinality(S) -> S] : \A i, j \in 1..Cardinality(S) : s[i] = s[j] => i = j}

\* lines 169-171
ReadInput ==
    /\ pc = "start"
    /\ brands' \in Orderings(BrandSet(lines))
    /\ pc' = "loop"
    /\ UNCHANGED <<lines, idx, site, result, calls, query, rows, raisedIn, harnessVars>>

\* line 176, the call of get_website for the next brand
CallGetWebsite ==
    /\ pc = "loop"
    /\ idx < Len(brands)
    /\ pc' = "wikidata"
    /\ site' = None
    /\ result' = NoResult
    /\ calls' = <<>>
    /\ UNCHANGED <<lines, brands, idx, query, rows, raisedIn, harnessVars>>

\* website or ""
OrEmpty(website) == IF Truthy(website) THEN website ELSE EmptyStr

\* lines 177-180
WriteRow ==
    /\ pc = "write"
    /\ rows' = Append(rows, <<brand, OrEmpty(result[1]), result[2]>>)
    /\ idx' = idx + 1
    /\ pc' = "loop"
    /\ UNCHANGED <<lines, brands, site, result, calls, query, raisedIn, harnessVars>>

\* the loop is over: send_csv_to_discord, whose requests.post answers 204,
\* answers another status, or raises
SendCsv ==
    /\ pc = "loop"
    /\ idx = Len(brands)
    /\ \E answer \in {"204", "other", "raise"} :
           IF answer = "raise"
           THEN pc' = "crashed" /\ raisedIn' = "send_csv_to_discord"
           ELSE pc' = "done" /\ UNCHANGED raisedIn
    /\ UNCHANGED <<lines, brands, idx, site, result, calls, query, rows, harnessVars>>

Init ==
    /\ lines \in SeqUpTo(LineSet, MaxLines)
    /\ brands = <<>>
    /\ idx = 0
    /\ pc = "start"
    /\ site = None
    /\ result = NoResult
    /\ calls = <<>>
    /\ query = None
    /\ rows = <<>>
    /\ raisedIn = "nowhere"
    /\ args = <<>>
    /\ out = <<>>

Next ==
    \/ ReadInput
    \/ CallGetWebsite
    \/ FetchWikidata
    \/ FetchWikipedia
    \/ FetchDuckduckgo
    \/ WriteRow
    \/ SendCsv

Spec == Init /\ [][Next]_vars

-----------------------------------------------------------------------------
(* _looks_official called directly on a url and a brand *)

Pending == <<>>

MatcherUrls ==
    {U_acme, U_acmetools, U_acme_upper, U_acme_noscheme, U_acme_userinfo, U_acme_bracket,
     U_acme_ru, U_acme_ru_port, U_sephora, U_sephora_port, U_sephora_userinfo,
     U_sephora_shop, U_example, EmptyStr}

MatcherBrands == {B_Sephora, B_Acme, B_AcmeTools, B_Quote}

\* Brands whose slug has fewer than 6 characters: "acme", "ab" and the empty slug
ShortSlugBrands == {B_Acme, B_Quote, B_Bang, EmptyStr}

PipelineIdle ==
    /\ lines = <<>>
    /\ brands = <<>>
    /\ idx = 0
    /\ pc = "harness"
    /\ site = None
    /\ result = NoResult
    /\ calls = <<>>
    /\ query = None
    /\ rows = <<>>
    /\ raisedIn = "nowhere"

InitMatcher ==
    /\ PipelineIdle
    /\ args \in MatcherUrls \X MatcherBrands
    /\ out = Pending

CallLooksOfficial ==
    /\ out = Pending
    /\ out' = <<LooksOfficialOutcome(args[1], args[2])>>
    /\ UNCHANGED <<args, pipelineVars>>

SpecMatcher == InitMatcher /\ [][CallLooksOfficial]_vars

InitShortSlug ==
    /\ PipelineIdle
    /\ args \in MatcherUrls \X ShortSlugBrands
    /\ out = Pending

SpecShortSlug == InitShortSlug /\ [][CallLooksOfficial]_vars

-----------------------------------------------------------------------------
(* fetch_wikipedia_site called directly on a parsed infobox *)

AnchorLists ==
    {<<>>, <<U_acme>>, <<U_sephora>>, <<U_relative, U_acme>>, <<U_sephora, U_acme>>,
     <<U_acme_bracket>>, <<U_acmetools>>}

InfoboxRows == {Row(th, hrefs) : th \in {None, H_Official, H_Founded}, hrefs \in AnchorLists}

InitInfobox ==
    /\ PipelineIdle
    /\ args \in SeqUpTo(InfoboxRows, MaxRows) \X {B_Acme}
    /\ out = Pending

CallFetchWikipedia ==
    /\ out = Pending
    /\ out' = <<fetch_wikipedia_site([kind |-> "infobox", rows |-> args[1]], args[2])>>
    /\ UNCHANGED <<args, pipelineVars>>

SpecInfobox == InitInfobox /\ [][CallFetchWikipedia]_vars

-----------------------------------------------------------------------------
(* Properties of get_website and main, checked under Spec *)

\* The source's tags stand for the specification's: wikidata for structured_kb,
\* wikipedia for encyclopedia, duckduckgo for web_search.
Priority == <<"wikidata", "wikipedia", "duckduckgo">>

\* An adapter's return value that is no URL: None or the empty string
Absent(v) == v = None \/ v = EmptyStr

\* C1: get_website invokes the adapters in the order wikidata, wikipedia,
\* duckduckgo, and invokes one only if every earlier one returned no URL; when
\* wikidata returns a URL the result is (that URL, wikidata) and no other
\* adapter is called.
C1_PriorityOrder ==
    /\ Len(calls) <= Len(Priority)
    /\ \A i \in 1..Len(calls) : calls[i].adapter = Priority[i]
    /\ \A i \in 1..Len(calls) : \A j \in 1..(i - 1) : Absent(calls[j].returned)
    /\ (calls # <<>> /\ ~Absent(calls[1].returned))
           => (Len(calls) = 1 /\ result = <<calls[1].returned, "wikidata">>)

\* get_website has returned a wikidata hit after a single adapter call
C1_Witness ==
    /\ pc = "write"
    /\ Len(calls) = 1
    /\ calls[1].adapter = "wikidata"
    /\ result = <<U_acme, "wikidata">>

\* C2: an exception raised inside an adapter makes that adapter return None to
\* get_website, and never leaves get_website.
C2_AdapterIsolation ==
    /\ \A i \in 1..Len(calls) : calls[i].failed => calls[i].returned = None
    /\ raisedIn \notin {"fetch_wikidata_site", "fetch_wikipedia_site", "fetch_duckduckgo_site"}

\* the run is over, normally or by an uncaught exception
Terminated == pc \in {"done", "crashed"}

\* C3: when the run is over the output holds exactly one row for each distinct
\* stripped non-empty line of the input, whatever the adapters did; a row without
\* a website has source not_found.
C3_BatchCompletes ==
    Terminated =>
        /\ Len(rows) = Cardinality(BrandSet(lines))
        /\ {rows[i][1] : i \in 1..Len(rows)} = BrandSet(lines)
        /\ \A i \in 1..Len(rows) : rows[i][2] = EmptyStr <=> rows[i][3] = "not_found"

\* C4: a value get_website returns has source not_found exactly when its website
\* is None; any other source comes with a non-empty website and names the adapter
\* that returned it, the last one called; three adapters without a URL give
\* (None, not_found).
C4_WellFormed ==
    result # NoResult =>
        /\ result[2] = "not_found" <=> result[1] = None
        /\ result[2] # "not_found" =>
               /\ result[1] # None
               /\ result[1] # EmptyStr
               /\ \E i \in 1..Len(Priority) : result[2] = Priority[i]
               /\ calls[Len(calls)].adapter = result[2]
               /\ calls[Len(calls)].returned = result[1]
        /\ (Len(calls) = Len(Priority) /\ \A i \in 1..Len(calls) : Absent(calls[i].returned))
               => result = <<None, "not_found">>

\* all three adapters came back without a URL, wikidata with an empty string
C4_Witness ==
    /\ pc = "write"
    /\ Len(calls) = 3
    /\ calls[1].returned = EmptyStr
    /\ result = <<None, "not_found">>

\* One SPARQL string literal read from position i of q, the opening quote already
\* consumed: STRING_LITERAL2 with its ECHAR escapes. ok: the literal is closed and
\* well formed; value: the string it denotes; rest: the text from its closing quote
RECURSIVE LiteralFrom(_, _, _)
LiteralFrom(q, i, acc) ==
    IF i > Len(q) THEN [ok |-> FALSE, value |-> acc, rest |-> EmptyStr]
    ELSE IF q[i] = "\"" THEN [ok |-> TRUE, value |-> acc, rest |-> Suffix(q, i - 1)]
    ELSE IF q[i] \in {"\n", "\r"} THEN [ok |-> FALSE, value |-> acc, rest |-> Suffix(q, i - 1)]
    ELSE IF q[i] = "\\"
         THEN IF i < Len(q) /\ q[i + 1] \in {"\"", "\\", "n"}
              THEN LiteralFrom(q, i + 2, Append(acc, IF q[i + 1] = "n" THEN "\n" ELSE q[i + 1]))
              ELSE [ok |-> FALSE, value |-> acc, rest |-> Suffix(q, i - 1)]
    ELSE LiteralFrom(q, i + 1, Append(acc, q[i]))

\* C8: the label literal of the query fetch_wikidata_site sent denotes exactly the
\* brand name, and the query goes on after it as the template does.
C8_QueryEscaped ==
    pc \in {"wikipedia", "duckduckgo", "write"} =>
        LET lit == LiteralFrom(query, Len(QueryHead) + 1, <<>>)
        IN /\ lit.ok
           /\ lit.value = brand
           /\ lit.rest = QueryTail

\* C10: a website returned with source wikipedia or duckduckgo is one
\* _looks_official accepts for the brand (wikidata's is returned unfiltered).
C10_FilteredSources ==
    (pc = "write" /\ result[2] \in {"wikipedia", "duckduckgo"}) =>
        /\ ~UrlparseRaises(result[1])
        /\ looks_official(result[1], brand)

\* get_website has returned, with source wikidata, a website _looks_official rejects
C10_Witness ==
    /\ pc = "write"
    /\ result[2] = "wikidata"
    /\ ~looks_official(result[1], brand)

-----------------------------------------------------------------------------
(* Properties of _looks_official, checked under SpecMatcher and SpecShortSlug *)

\* The url's host as the specification means it: the netloc without userinfo and
\* port, lowercased
Host(url) ==
    LET n == Netloc(url)
        at == IF \E i \in 1..Len(n) : n[i] = "@"
              THEN CHOOSE i \in 1..Len(n) : n[i] = "@" /\ \A j \in (i + 1)..Len(n) : n[j] # "@"
              ELSE 0
        hostport == Suffix(n, at)
        colon == FindAny(hostport, {":"}, 1)
    IN Lower(IF colon = 0 THEN hostport ELSE Prefix(hostport, colon - 1))

\* Domain: the host with a leading "www." stripped
Domain(url) == DomainNw(Host(url))

\* C5: a url whose Domain ends with a member of EXCLUDE_DOMAINS is rejected for
\* every brand.
C5_ExcludedRejected ==
    (out # Pending /\ \E bad \in EXCLUDE_DOMAINS : EndsWith(Domain(args[1]), bad))
        => out = <<"False">>

\* C6: for a brand whose slug has fewer than 6 characters _looks_official does not
\* raise and accepts only a url whose Domain contains the whole slug; an empty
\* slug is accepted for no url.
C6_ShortSlug ==
    (out # Pending /\ Len(BrandSlug(args[2])) < 6) =>
        /\ out # <<"ValueError">>
        /\ out = <<"True">> =>
               /\ BrandSlug(args[2]) # EmptyStr
               /\ Contains(Domain(args[1]), BrandSlug(args[2]))

\* the last dot-separated label of a domain
TopLabel(d) ==
    LET dot == IF \E i \in 1..Len(d) : d[i] = "."
               THEN CHOOSE i \in 1..Len(d) : d[i] = "." /\ \A j \in (i + 1)..Len(d) : d[j] # "."
               ELSE 0
    IN Suffix(d, dot)

\* C7: a url whose Domain has the top-level label "ru" is rejected for every
\* brand, whatever its port or path.
C7_RuRejected ==
    (out # Pending /\ TopLabel(Domain(args[1])) = <<"r", "u">>) => out = <<"False">>

-----------------------------------------------------------------------------
(* Properties of fetch_wikipedia_site, checked under SpecInfobox *)

\* row i of the infobox has a header that contains "website"
WebsiteRow(i) == args[1][i].th # None /\ IsWebsiteHeader(args[1][i].th)

\* the first anchor of website row i, which starts with http
HttpLink(i) ==
    /\ WebsiteRow(i)
    /\ args[1][i].hrefs # <<>>
    /\ StartsWith(args[1][i].hrefs[1], <<"h","t","t","p">>)

\* C9 as stated: a url the adapter returns is the first anchor of the first
\* website row; nothing is returned from a later website row or a later anchor.
C9_FirstMatchOnly ==
    (out # Pending /\ out[1] # None) =>
        \E i \in 1..Len(args[1]) :
            /\ WebsiteRow(i)
            /\ \A j \in 1..(i - 1) : ~WebsiteRow(j)
            /\ args[1][i].hrefs # <<>>
            /\ out[1] = args[1][i].hrefs[1]

\* C9 as the code has it: in every website row only the first anchor counts; the
\* adapter returns the first anchor of the first website row whose first anchor
\* starts with http and passes _looks_official, skipping website rows whose first
\* anchor is missing or rejected; it returns None when there is no such row or
\* when urlparse raises on an earlier row's first anchor.
C9_FirstAcceptedRow ==
    out # Pending =>
        LET raises(i) == HttpLink(i) /\ UrlparseRaises(args[1][i].hrefs[1])
            good(i) == /\ HttpLink(i)
                       /\ ~raises(i)
                       /\ looks_official(args[1][i].hrefs[1], args[2])
            hit(i) == good(i) /\ \A j \in 1..(i - 1) : ~good(j) /\ ~raises(j)
        IN IF \E i \in 1..Len(args[1]) : hit(i)
           THEN \E i \in 1..Len(args[1]) : hit(i) /\ out[1] = args[1][i].hrefs[1]
           ELSE out[1] = None

\* the first website row's first anchor is rejected, its second anchor is passed
\* over, and the url comes from the second website row
C9_Witness ==
    /\ out = <<U_acmetools>>
    /\ Len(args[1]) = 2
    /\ WebsiteRow(1)
    /\ args[1][1].hrefs = <<U_sephora, U_acme>>
    /\ WebsiteRow(2)
    /\ args[1][2].hrefs = <<U_acmetools>>

=============================================================================
